---- MODULE Spec2Model ----
(***************************************************************************)
(* The QR attendance capture cycle of client/pages/QrCodeScanner.tsx (and  *)
(* its debug variant in client/components/MainContent.tsx): the sampling   *)
(* interval, the image-load callbacks of capture(), processQRCode and the  *)
(* createByQRCode calls it awaits, the reset timeout, unmount, and the     *)
(* scan-area geometry shared by the overlay and the decode crop.           *)
(*                                                                         *)
(* A state update (setScanState) is rendered, and the effects that depend  *)
(* on it are run, within the step of the handler that issues it.           *)
(***************************************************************************)
EXTENDS Integers, Sequences, FiniteSets, TLC

VARIABLES
    mountedRef,       \* mountedRef.current
    isProcessingRef,  \* isProcessingRef.current
    scanState,        \* the scanState hook state
    snackbar,         \* the snackbar hook state
    facingMode,       \* the facingMode hook state
    webcamRef,        \* webcamRef.current is a mounted Webcam
    captureDeps,      \* scanState fields closed over by the current capture
    timers,           \* scanningInterval / resetTimeout refs and the live timers
    pendingImages,    \* images of capture() whose onload/onerror is pending
    inflight,         \* payloads of the createByQRCode calls not yet resolved
    hits,             \* decode hits delivered so far
    lastEvent,        \* what the last step did
    settled,          \* the settlement the last step handled, if it handled one
    camera,           \* the Webcam's getUserMedia request: its stream, if any
    variant,          \* which scanner implementation is mounted
    userAgent,        \* navigator.userAgent, as the set of signatures in it
    innerWidth,       \* window.innerWidth
    scanAreaSize,     \* the memoized overlay size, in percent
    resized,          \* the viewport width changed since mount
    crop,             \* the last decode crop computed by image.onload
    currentPage,      \* NewDepartmentTable: the currentPage hook state
    departmentData,   \* the departmentData hook state: <<[name, size], ...>>
    selectedDepartments, \* the selectedDepartments hook state: a set of names
    tableView,        \* what the table renders: "loading", "error" or "table"
    cookie,           \* the selectedDepartments cookie
    tableEvent,       \* what the last step of the table did
    clamped           \* the clamping effect set currentPage in the last step

cycleVars == <<mountedRef, isProcessingRef, scanState, snackbar, facingMode,
               webcamRef, captureDeps, timers, pendingImages, inflight, hits,
               lastEvent, settled, camera>>
regionVars == <<variant, userAgent, innerWidth, scanAreaSize, resized, crop>>
tableVars == <<currentPage, departmentData, selectedDepartments, tableView,
               cookie, tableEvent, clamped>>
vars == <<mountedRef, isProcessingRef, scanState, snackbar, facingMode,
          webcamRef, captureDeps, timers, pendingImages, inflight, hits,
          lastEvent, settled, camera, variant, userAgent, innerWidth,
          scanAreaSize, resized, crop, currentPage, departmentData,
          selectedDepartments, tableView, cookie, tableEvent, clamped>>

----------------------------------------------------------------------------
\* Bounds of the model.

\* images of capture() that may be loading at once
MaxPendingImages == 2
\* decode hits the camera delivers in one session
MaxDecodeHits == 3

\* departments the dashboard feed may name
MaxDepartments == 2

----------------------------------------------------------------------------
\* Values.

Null == "null"

\* JavaScript falsiness of a string-or-null value
Falsy(s) == s \in {Null, ""}

OrElse(s, d) == IF Falsy(s) THEN d ELSE s

NetworkErrorMessage == "NETWORK_ERROR_RETRY_LATER"
UnknownErrorMessage == "UNKNOWN_ERROR"

\* decoded payloads (code.data)
Payloads == {"", "QR1"}

NoData == [present |-> FALSE, employee_id |-> "", full_name |-> "", come_time |-> Null]

MkResponse(st, err, msg, d) ==
    [isObject |-> TRUE, hasStatus |-> TRUE, status |-> st, error |-> err,
     message |-> msg, data |-> d]

\* what createByQRCode resolves with
Responses ==
    { MkResponse(TRUE, Null, "WELCOME",
                 [present |-> TRUE, employee_id |-> "E1", full_name |-> "Taro",
                  come_time |-> "09:00:00"]),
      MkResponse(TRUE, Null, "GOODBYE",
                 [present |-> TRUE, employee_id |-> "E1", full_name |-> "Taro",
                  come_time |-> Null]),
      MkResponse(TRUE, Null, "GOODBYE",
                 [present |-> TRUE, employee_id |-> "E1", full_name |-> "Taro",
                  come_time |-> ""]),
      MkResponse(TRUE, Null, "", NoData),
      MkResponse(FALSE, "NOT_FOUND", "", NoData),
      MkResponse(FALSE, Null, "", NoData),
      \* an object without a status field
      [isObject |-> TRUE, hasStatus |-> FALSE, status |-> FALSE, error |-> Null,
       message |-> "", data |-> NoData],
      \* null
      [isObject |-> FALSE, hasStatus |-> FALSE, status |-> FALSE, error |-> Null,
       message |-> "", data |-> NoData] }

\* the settlements of the promise of createByQRCode
Replies ==
    {[threw |-> FALSE, response |-> r] : r \in Responses}
      \cup {[threw |-> TRUE, response |-> MkResponse(FALSE, Null, "", NoData)]}

\* no settlement was handled in the last step
NoReply ==
    [any |-> FALSE,
     reply |-> [threw |-> FALSE, response |-> MkResponse(FALSE, Null, "", NoData)]]

InitialScanState ==
    [result |-> Null, isScanning |-> TRUE, isProcessing |-> FALSE,
     serverMessage |-> "", employeeName |-> "", messageType |-> Null]

----------------------------------------------------------------------------
\* Timers. A ref is "undefined", or holds the handle of a live timer
\* ("armed") or of one that was cleared or has fired ("cleared").

ClearInterval(t) ==
    IF t.scanningInterval = "armed"
    THEN [t EXCEPT !.scanningInterval = "cleared", !.intervals = @ - 1]
    ELSE t

ClearTimeout(t) ==
    IF t.resetTimeout = "armed"
    THEN [t EXCEPT !.resetTimeout = "cleared", !.timeouts = @ - 1]
    ELSE t

\* if (ref.current) { clear(ref.current); ref.current = undefined; }
DropInterval(t) ==
    IF t.scanningInterval = "undefined" THEN t
    ELSE [ClearInterval(t) EXCEPT !.scanningInterval = "undefined"]

DropTimeout(t) ==
    IF t.resetTimeout = "undefined" THEN t
    ELSE [ClearTimeout(t) EXCEPT !.resetTimeout = "undefined"]

\* the cleanup returned by the timer effect when it ran with isScanning = s
TimerEffectCleanup(t, s) == IF s THEN DropInterval(t) ELSE DropTimeout(t)

\* (mutant) an effect that arms the interval and never the reset timeout
TimerEffect_IntervalOnly(t, s) ==
    LET c == DropTimeout(DropInterval(t))
    IN  IF s
        THEN [c EXCEPT !.scanningInterval = "armed", !.intervals = @ + 1]
        ELSE c

\* the body of the timer effect, run with isScanning = s
TimerEffect(t, s) ==
    LET c == DropTimeout(DropInterval(t))
    IN  IF s
        THEN [c EXCEPT !.scanningInterval = "armed", !.intervals = @ + 1]
        ELSE [c EXCEPT !.resetTimeout = "armed", !.timeouts = @ + 1]

Deps(st) == [isScanning |-> st.isScanning, isProcessing |-> st.isProcessing]

\* (mutant) an effect that arms its timer and cancels none
Rerender_ArmOnly(t, d, st) ==
    IF Deps(st) = d THEN t
    ELSE IF st.isScanning
         THEN [t EXCEPT !.scanningInterval = "armed", !.intervals = @ + 1]
         ELSE [t EXCEPT !.resetTimeout = "armed", !.timeouts = @ + 1]

\* (mutant) an effect that arms the reset timeout over a running interval
Rerender_KeepsInterval(t, d, st) ==
    IF Deps(st) = d THEN t
    ELSE IF st.isScanning
         THEN TimerEffect(TimerEffectCleanup(t, d.isScanning), TRUE)
         ELSE [DropTimeout(t) EXCEPT !.resetTimeout = "armed", !.timeouts = @ + 1]

\* A render of state st after one that closed over deps d: capture is a new
\* callback when isScanning or isProcessing changed, and then the timer
\* effect (deps [scanState.isScanning, capture]) is cleaned up and re-run.
Rerender(t, d, st) ==
    IF Deps(st) = d THEN t
    ELSE TimerEffect(TimerEffectCleanup(t, d.isScanning), st.isScanning)

\* the cleanups run at unmount: the mount effect's, then the timer effect's
UnmountCleanup(t, d) ==
    TimerEffectCleanup(ClearTimeout(ClearInterval(t)), d.isScanning)

----------------------------------------------------------------------------
\* Device class and scan area. A user agent is the set of signatures that
\* occur in it; a multiplier is in tenths (0.4 is 4), an overlay size in
\* percent, a crop length in twentieths of a pixel.

UserAgents ==
    { {"iPhone"}, {"iPad"}, {"Android"}, {"Android", "Tablet"}, {"Tablet"},
      {"Windows"} }

\* /Android|webOS|iPhone|iPad|iPod|BlackBerry|IEMobile|Opera Mini/i
isMobileDevice(ua) ==
    ua \cap {"Android", "webOS", "iPhone", "iPad", "iPod", "BlackBerry",
             "IEMobile", "Opera Mini"} # {}

\* /iPad|Android(?=.*Tablet)|Tablet/i, or a viewport of 768..1366 px
isTabletDevice(ua, w) ==
    \/ "iPad" \in ua
    \/ {"Android", "Tablet"} \subseteq ua
    \/ "Tablet" \in ua
    \/ (w >= 768 /\ w <= 1366)

\* (mutant) the chain with the mobile test first
DeviceClass_MobileFirst(ua, w) ==
    IF isMobileDevice(ua) THEN "phone"
    ELSE IF isTabletDevice(ua, w) THEN "tablet"
    ELSE "desktop"

\* the branch of the if / else-if chain that picks the multiplier
DeviceClass(ua, w) ==
    IF isTabletDevice(ua, w) THEN "tablet"
    ELSE IF isMobileDevice(ua) THEN "phone"
    ELSE "desktop"

ScanAreaMultiplier(c) ==
    IF c = "tablet" THEN 5 ELSE IF c = "phone" THEN 6 ELSE 4

getScanAreaConfig(ua, w) ==
    LET scanAreaMultiplier == ScanAreaMultiplier(DeviceClass(ua, w))
    IN  [multiplier |-> scanAreaMultiplier,
         viewportPercentage |-> scanAreaMultiplier * 10]

\* the debug variant's overlay size
DebugScanAreaSize(ua, w) ==
    IF isTabletDevice(ua, w) THEN 45
    ELSE IF isMobileDevice(ua) THEN 60
    ELSE 35

Variants == {"QrCodeScanner", "MainContent"}

\* the memoized scanAreaSize of either implementation
OverlaySize(v, ua, w) ==
    IF v = "QrCodeScanner" THEN getScanAreaConfig(ua, w).viewportPercentage
    ELSE DebugScanAreaSize(ua, w)

\* the scanAreaMultiplier image.onload uses in either implementation
CropMultiplier(v, ua, w) ==
    IF v = "QrCodeScanner" THEN getScanAreaConfig(ua, w).multiplier
    ELSE ScanAreaMultiplier(DeviceClass(ua, w))

Min(a, b) == IF a <= b THEN a ELSE b

\* (mutant) a crop whose origin is not halved
CropGeometry_Uncentred(sourceWidth, sourceHeight, m) ==
    LET scanArea == Min(sourceWidth, sourceHeight) * m
    IN  [side |-> 2 * scanArea,
         startX |-> 2 * (10 * sourceWidth - scanArea),
         startY |-> 2 * (10 * sourceHeight - scanArea)]

\* scanAreaSize, startX and startY of image.onload for a sourceWidth x
\* sourceHeight image and multiplier m
CropGeometry(sourceWidth, sourceHeight, m) ==
    LET scanArea == Min(sourceWidth, sourceHeight) * m   \* tenths of a pixel
    IN  [side |-> 2 * scanArea,
         startX |-> (10 * sourceWidth - scanArea),
         startY |-> (10 * sourceHeight - scanArea)]

NoCrop ==
    [taken |-> FALSE, width |-> 0, height |-> 0, viewport |-> 0, multiplier |-> 0,
     side |-> 0, startX |-> 0, startY |-> 0]

\* the crop image.onload computes, with the inputs it was computed from
DecodeCrop(v, ua, w, frame) ==
    LET m == CropMultiplier(v, ua, w)
        g == CropGeometry(frame[1], frame[2], m)
    IN  [taken |-> TRUE, width |-> frame[1], height |-> frame[2], viewport |-> w,
         multiplier |-> m, side |-> g.side, startX |-> g.startX,
         startY |-> g.startY]

\* viewport widths, around the limits of the tablet range
Widths == {767, 768, 1366, 1367}

\* camera frame sizes (width, height)
Frames == { <<1000, 2000>>, <<1280, 720>>, <<3, 3>>, <<7, 4>> }

\* the frame size of the camera of the capture cycle's session
SessionFrame == <<1280, 720>>

----------------------------------------------------------------------------
\* processQRCode.

\* the synchronous part of processQRCode, up to the await, on scanState
ProcessingStarted(st) == [st EXCEPT !.isScanning = FALSE, !.isProcessing = TRUE]

\* (mutant) check-in whenever the response carries data
SuccessType_ByData(response) ==
    IF response.data.present THEN "check-in" ELSE "check-out"

\* messageType of a response with status true
SuccessType(response) ==
    IF response.data.present /\ ~Falsy(response.data.come_time)
    THEN "check-in" ELSE "check-out"

\* (mutant) a success outcome that leaves messageType as it was
SuccessOutcome_NoType(st, response) ==
    [st EXCEPT !.result = IF response.data.present
                          THEN OrElse(response.data.employee_id, "") ELSE "",
               !.serverMessage = OrElse(response.message, ""),
               !.employeeName = IF response.data.present
                                THEN OrElse(response.data.full_name, "") ELSE ""]

\* the outcome stored for a response with status true
SuccessOutcome(st, response) ==
    [st EXCEPT !.result = IF response.data.present
                          THEN OrElse(response.data.employee_id, "") ELSE "",
               !.serverMessage = OrElse(response.message, ""),
               !.employeeName = IF response.data.present
                                THEN OrElse(response.data.full_name, "") ELSE "",
               !.messageType = SuccessType(response)]

\* (mutant) an error outcome that keeps the employee of the last result
ErrorOutcome_KeepsEmployee(st, message) ==
    [st EXCEPT !.serverMessage = message, !.messageType = "error"]

\* the outcome stored for an error message
ErrorOutcome(st, message) ==
    [st EXCEPT !.serverMessage = message, !.messageType = "error",
               !.result = Null, !.employeeName = ""]

\* finally: setScanState(prev => ({ ...prev, isProcessing: false })) if mounted
Finally(out, mounted) ==
    IF mounted THEN [out EXCEPT !.scanState.isProcessing = FALSE] ELSE out

\* processQRCode from the settlement of the awaited call to its end, on
\* scanState and snackbar: try, catch and finally, where mounted is what the
\* checks of mountedRef.current read
Settled(st, snack, reply, mounted) ==
    LET same == [scanState |-> st, snackbar |-> snack]
        caught ==
            IF ~mounted THEN same
            ELSE [scanState |-> ErrorOutcome(st, NetworkErrorMessage),
                  snackbar |-> [open |-> TRUE, message |-> NetworkErrorMessage]]
        tried ==
            IF reply.threw THEN caught
            ELSE IF ~mounted THEN same
            \* response.status of null throws a TypeError inside the try
            ELSE IF ~reply.response.isObject THEN caught
            ELSE IF reply.response.hasStatus /\ reply.response.status
            THEN [scanState |-> SuccessOutcome(st, reply.response),
                  snackbar |-> [open |-> TRUE,
                                message |-> OrElse(reply.response.message, "")]]
            ELSE LET msg == OrElse(reply.response.error, UnknownErrorMessage)
                 IN  [scanState |-> ErrorOutcome(st, msg),
                      snackbar |-> [open |-> TRUE, message |-> msg]]
    IN  Finally(tried, mounted)

\* (mutant) the continuation of processQRCode without its mountedRef checks
processQRCodeResume_Unguarded(st, snack, reply, mounted) ==
    Settled(st, snack, reply, TRUE)

\* the continuation of processQRCode, reading mountedRef.current
processQRCodeResume(st, snack, reply, mounted) ==
    Settled(st, snack, reply, mounted)

\* (mutant) a reset that clears the outcome and leaves isScanning as it is
ResetScanState_NoResume(st) ==
    [st EXCEPT !.result = Null, !.serverMessage = "", !.employeeName = "",
               !.messageType = Null]

\* (mutant) a reset that flips isScanning
ResetScanState_Flip(st) ==
    [st EXCEPT !.isScanning = ~@, !.result = Null, !.serverMessage = "",
               !.employeeName = "", !.messageType = Null]

\* the state update of the reset timeout's callback
ResetScanState(st) ==
    [st EXCEPT !.isScanning = TRUE, !.result = Null, !.serverMessage = "",
               !.employeeName = "", !.messageType = Null]

RemoveAt(q, i) == SubSeq(q, 1, i - 1) \o SubSeq(q, i + 1, Len(q))

----------------------------------------------------------------------------
\* The capture cycle.

\* the guards of capture() before getScreenshot
CaptureAllowed ==
    /\ mountedRef
    /\ ~isProcessingRef
    /\ captureDeps.isScanning
    /\ webcamRef

\* the render that follows a state update of a mounted component
Render ==
    IF mountedRef
    THEN /\ timers' = Rerender(timers, captureDeps, scanState')
         /\ captureDeps' = Deps(scanState')
         /\ webcamRef' = scanState'.isScanning
    ELSE UNCHANGED <<timers, captureDeps, webcamRef>>

\* whether getScreenshot() can return an image: only from a live stream
Screenshots == IF camera = "live" THEN BOOLEAN ELSE {FALSE}

\* a tick of the sampling interval: if (mountedRef.current) capture()
SamplingTick ==
    /\ timers.intervals > 0
    /\ pendingImages < MaxPendingImages
    /\ \E screenshot \in Screenshots :
         pendingImages' = IF mountedRef /\ CaptureAllowed /\ screenshot
                          THEN pendingImages + 1 ELSE pendingImages
    /\ lastEvent' = "tick"
    /\ UNCHANGED <<mountedRef, isProcessingRef, scanState, snackbar, facingMode,
                   webcamRef, captureDeps, timers, inflight, hits>>
    /\ settled' = NoReply
    /\ UNCHANGED camera
    /\ UNCHANGED regionVars
    /\ UNCHANGED tableVars

\* what the body of image.onload comes to: no 2d context or an exception
\* before jsQR ("error"), jsQR finds nothing ("miss"), or it returns a code
DecodeResults ==
    {[kind |-> "error", data |-> ""], [kind |-> "miss", data |-> ""]}
      \cup {[kind |-> "hit", data |-> p] : p \in Payloads}

\* (mutant) processQRCode called whatever jsQR returned
Accepts_Unchecked(r) == r.kind # "error" /\ ~isProcessingRef

\* if (code) processQRCode(code.data), past the guard of processQRCode
Accepts(r) == r.kind = "hit" /\ ~isProcessingRef

\* image.onload of an image of capture(), processQRCode up to its await
\* included
ImageLoad ==
    /\ pendingImages > 0
    /\ \E r \in DecodeResults :
         /\ r.kind = "hit" => hits < MaxDecodeHits
         /\ hits' = IF r.kind = "hit" THEN hits + 1 ELSE hits
         /\ crop' = IF r.kind = "error" THEN crop
                    ELSE DecodeCrop(variant, userAgent, innerWidth, SessionFrame)
         /\ IF Accepts(r)
            THEN /\ isProcessingRef' = TRUE
                 /\ scanState' = ProcessingStarted(scanState)
                 /\ inflight' = Append(inflight, r.data)
                 /\ Render
            ELSE UNCHANGED <<isProcessingRef, scanState, inflight, timers,
                             captureDeps, webcamRef>>
         /\ lastEvent' = IF r.kind # "hit" THEN r.kind
                          ELSE IF Accepts(r) THEN "accept" ELSE "drop"
    /\ pendingImages' = pendingImages - 1
    /\ settled' = NoReply
    /\ UNCHANGED <<mountedRef, snackbar, facingMode, camera>>
    /\ UNCHANGED <<variant, userAgent, innerWidth, scanAreaSize, resized>>
    /\ UNCHANGED tableVars

\* image.onerror
ImageError ==
    /\ pendingImages > 0
    /\ pendingImages' = pendingImages - 1
    /\ lastEvent' = "onerror"
    /\ UNCHANGED <<mountedRef, isProcessingRef, scanState, snackbar, facingMode,
                   webcamRef, captureDeps, timers, inflight, hits>>
    /\ settled' = NoReply
    /\ UNCHANGED camera
    /\ UNCHANGED regionVars
    /\ UNCHANGED tableVars

\* an awaited createByQRCode call settles and processQRCode runs to its end
SubmissionSettles ==
    /\ \E i \in 1..Len(inflight), reply \in Replies :
         LET out == processQRCodeResume(scanState, snackbar, reply, mountedRef)
         IN  /\ inflight' = RemoveAt(inflight, i)
             /\ scanState' = out.scanState
             /\ snackbar' = out.snackbar
             /\ settled' = [any |-> TRUE, reply |-> reply]
    /\ isProcessingRef' = FALSE
    /\ Render
    /\ lastEvent' = "settle"
    /\ UNCHANGED <<mountedRef, facingMode, pendingImages, hits>>
    /\ UNCHANGED camera
    /\ UNCHANGED regionVars
    /\ UNCHANGED tableVars

\* the timers after the armed reset timeout has fired
TimeoutFired(t) ==
    [t EXCEPT !.timeouts = @ - 1,
              !.resetTimeout = IF @ = "armed" THEN "cleared" ELSE @]

\* the reset timeout fires
ResetTimeoutFires ==
    /\ timers.timeouts > 0
    /\ IF mountedRef
       THEN /\ isProcessingRef' = FALSE
            /\ scanState' = ResetScanState(scanState)
            /\ timers' = Rerender(TimeoutFired(timers), captureDeps, scanState')
            /\ captureDeps' = Deps(scanState')
            /\ webcamRef' = scanState'.isScanning
       ELSE /\ timers' = TimeoutFired(timers)
            /\ UNCHANGED <<isProcessingRef, scanState, captureDeps, webcamRef>>
    /\ lastEvent' = "reset"
    /\ UNCHANGED <<mountedRef, snackbar, facingMode, pendingImages, inflight, hits>>
    /\ settled' = NoReply
    /\ UNCHANGED camera
    /\ UNCHANGED regionVars
    /\ UNCHANGED tableVars

\* the component unmounts: the cleanups of its effects run
Unmount ==
    /\ mountedRef
    /\ mountedRef' = FALSE
    /\ timers' = UnmountCleanup(timers, captureDeps)
    /\ webcamRef' = FALSE
    /\ lastEvent' = "unmount"
    /\ UNCHANGED <<isProcessingRef, scanState, snackbar, facingMode, captureDeps,
                   pendingImages, inflight, hits>>
    /\ settled' = NoReply
    /\ UNCHANGED camera
    /\ UNCHANGED regionVars
    /\ UNCHANGED tableVars

\* the Webcam's getUserMedia request is granted
UserMedia ==
    /\ mountedRef
    /\ camera = "requesting"
    /\ camera' = "live"
    /\ lastEvent' = "usermedia"
    /\ settled' = NoReply
    /\ UNCHANGED <<mountedRef, isProcessingRef, scanState, snackbar, facingMode,
                   webcamRef, captureDeps, timers, pendingImages, inflight, hits>>
    /\ UNCHANGED regionVars
    /\ UNCHANGED tableVars

\* the Webcam's getUserMedia request fails (permission denied, no device):
\* the element is given no onUserMediaError
UserMediaError ==
    /\ mountedRef
    /\ camera = "requesting"
    /\ camera' = "failed"
    /\ lastEvent' = "usermediaerror"
    /\ settled' = NoReply
    /\ UNCHANGED <<mountedRef, isProcessingRef, scanState, snackbar, facingMode,
                   webcamRef, captureDeps, timers, pendingImages, inflight, hits>>
    /\ UNCHANGED regionVars
    /\ UNCHANGED tableVars

\* (mutant) a toggle that also restarts the cycle
toggleCamera_Restart ==
    /\ mountedRef
    /\ captureDeps.isScanning
    /\ facingMode' = IF facingMode = "environment" THEN "user" ELSE "environment"
    /\ isProcessingRef' = FALSE
    /\ scanState' = InitialScanState
    /\ Render
    /\ lastEvent' = "toggle"
    /\ settled' = NoReply
    /\ UNCHANGED <<mountedRef, snackbar, pendingImages, inflight, hits, camera>>
    /\ UNCHANGED regionVars
    /\ UNCHANGED tableVars

\* the camera toggle button, rendered while isScanning: setFacingMode only
\* (camera is the outcome of the stream request made at mount)
toggleCamera ==
    /\ mountedRef
    /\ captureDeps.isScanning
    /\ facingMode' = IF facingMode = "environment" THEN "user" ELSE "environment"
    /\ lastEvent' = "toggle"
    /\ settled' = NoReply
    /\ UNCHANGED <<mountedRef, isProcessingRef, scanState, snackbar, webcamRef,
                   captureDeps, timers, pendingImages, inflight, hits, camera>>
    /\ UNCHANGED regionVars
    /\ UNCHANGED tableVars

\* Snackbar onClose
SnackbarClose ==
    /\ mountedRef
    /\ snackbar.open
    /\ snackbar' = [snackbar EXCEPT !.open = FALSE]
    /\ lastEvent' = "close"
    /\ UNCHANGED <<mountedRef, isProcessingRef, scanState, facingMode, webcamRef,
                   captureDeps, timers, pendingImages, inflight, hits>>
    /\ settled' = NoReply
    /\ UNCHANGED camera
    /\ UNCHANGED regionVars
    /\ UNCHANGED tableVars

\* no selectedDepartments cookie
NoCookie == [kind |-> "none", names |-> {}]

\* NewDepartmentTable before its first SSE message
TableIdle ==
    /\ currentPage = 1
    /\ departmentData = <<>>
    /\ selectedDepartments = {}
    /\ tableView = "loading"
    /\ tableEvent = "mount"
    /\ clamped = FALSE

\* the state of a mounted scanner after its first render and effects
Mounted ==
    /\ mountedRef = TRUE
    /\ isProcessingRef = FALSE
    /\ scanState = InitialScanState
    /\ snackbar = [open |-> FALSE, message |-> ""]
    /\ facingMode = "environment"
    /\ webcamRef = TRUE
    /\ captureDeps = Deps(InitialScanState)
    /\ timers = TimerEffect([scanningInterval |-> "undefined",
                             resetTimeout |-> "undefined",
                             intervals |-> 0, timeouts |-> 0], TRUE)
    /\ pendingImages = 0
    /\ inflight = <<>>
    /\ hits = 0
    /\ lastEvent = "mount"
    /\ settled = NoReply
    /\ camera = "requesting"
    /\ scanAreaSize = OverlaySize(variant, userAgent, innerWidth)
    /\ resized = FALSE
    /\ crop = NoCrop

Init ==
    /\ variant = "QrCodeScanner"
    /\ userAgent = {"Android"}
    /\ innerWidth = 767
    /\ Mounted
    /\ TableIdle
    /\ cookie = NoCookie

Next ==
    \/ SamplingTick
    \/ ImageLoad
    \/ ImageError
    \/ SubmissionSettles
    \/ ResetTimeoutFires
    \/ Unmount
    \/ toggleCamera
    \/ SnackbarClose
    \/ UserMedia
    \/ UserMediaError

Spec == Init /\ [][Next]_vars

\* timers that are armed fire
SpecLive == Spec /\ WF_vars(ResetTimeoutFires)

----------------------------------------------------------------------------
\* The reset callback as a function of the cycle state it is applied to: from
\* every outcome, flag and phase, mounted or not, any number of times.

\* the outcomes scanState can hold
Outcomes ==
    {InitialScanState}
      \cup {SuccessOutcome(InitialScanState, r) :
              r \in {x \in Responses : x.isObject /\ x.hasStatus /\ x.status}}
      \cup {ErrorOutcome(InitialScanState, m) :
              m \in {"NOT_FOUND", UnknownErrorMessage, NetworkErrorMessage}}

\* the callback of the reset timeout is run
ResetCallback ==
    /\ IF mountedRef
       THEN /\ isProcessingRef' = FALSE
            /\ scanState' = ResetScanState(scanState)
            /\ Render
       ELSE UNCHANGED <<isProcessingRef, scanState, timers, captureDeps, webcamRef>>
    /\ lastEvent' = "reset"
    /\ settled' = NoReply
    /\ UNCHANGED <<mountedRef, snackbar, facingMode, pendingImages, inflight,
                   hits, camera>>
    /\ UNCHANGED regionVars
    /\ UNCHANGED tableVars

InitReset ==
    /\ variant = "QrCodeScanner"
    /\ userAgent = {"Android"}
    /\ innerWidth = 767
    /\ mountedRef = TRUE
    /\ isProcessingRef \in BOOLEAN
    /\ \E o \in Outcomes, scanning \in BOOLEAN, processing \in BOOLEAN :
         scanState = [o EXCEPT !.isScanning = scanning, !.isProcessing = processing]
    /\ snackbar = [open |-> FALSE, message |-> ""]
    /\ facingMode = "environment"
    /\ webcamRef = scanState.isScanning
    /\ captureDeps = Deps(scanState)
    /\ timers = TimerEffect([scanningInterval |-> "undefined",
                             resetTimeout |-> "undefined",
                             intervals |-> 0, timeouts |-> 0], scanState.isScanning)
    /\ pendingImages = 0
    /\ inflight = <<>>
    /\ hits = 0
    /\ lastEvent = "mount"
    /\ settled = NoReply
    /\ camera = "live"
    /\ scanAreaSize = OverlaySize(variant, userAgent, innerWidth)
    /\ resized = FALSE
    /\ crop = NoCrop
    /\ TableIdle
    /\ cookie = NoCookie

NextReset ==
    \/ ResetCallback
    \/ Unmount

SpecReset == InitReset /\ [][NextReset]_vars

----------------------------------------------------------------------------
\* The dashboard table (admin/components/Table/NewDepartmentTable.tsx). A
\* department is its name and the number of its employees; a page is the
\* sequence of its column chunks. A state update is rendered, and the
\* effects that depend on it are run, within the step that issues it.

maxColumnsPerPage == 10
maxEmployeesPerColumn == 20

DepartmentNames == 1..MaxDepartments

\* employees per department: none, two columns, ten columns, eleven columns
DeptSizes == {0, 21, 200, 201}

\* the department lists of the SSE messages: the first departments, in order
Feeds ==
    UNION {[1..n -> DeptSizes] : n \in 0..MaxDepartments}

\* the departmentData of a feed
FeedData(f) == [i \in DOMAIN f |-> [name |-> i, size |-> f[i]]]

\* Math.ceil(n / maxEmployeesPerColumn)
ColumnsNeeded(n) == (n + maxEmployeesPerColumn - 1) \div maxEmployeesPerColumn

\* the chunks spliced off a department of n employees, in order
Chunks(name, n) ==
    [k \in 1..ColumnsNeeded(n) |->
       [name |-> name,
        first |-> (k - 1) * maxEmployeesPerColumn + 1,
        size |-> IF k * maxEmployeesPerColumn <= n
                 THEN maxEmployeesPerColumn
                 ELSE n - (k - 1) * maxEmployeesPerColumn]]

\* departmentData.filter(dept => selectedDepartments.has(dept.department_name))
filteredDepartmentData(data, selected) ==
    SelectSeq(data, LAMBDA d : d.name \in selected)

\* one iteration of the forEach of pages
PagesStep(acc, dept) ==
    LET columnsNeeded == ColumnsNeeded(dept.size)
        over == acc.currentCol + columnsNeeded > maxColumnsPerPage
        push == over /\ Len(acc.currentPageDepts) > 0
    IN  [result |-> IF push THEN Append(acc.result, acc.currentPageDepts)
                    ELSE acc.result,
         currentPageDepts |-> (IF push THEN <<>> ELSE acc.currentPageDepts)
                                \o Chunks(dept.name, dept.size),
         currentCol |-> (IF over THEN 0 ELSE acc.currentCol) + columnsNeeded]

RECURSIVE PagesLoop(_, _)
PagesLoop(acc, depts) ==
    IF depts = <<>> THEN acc
    ELSE PagesLoop(PagesStep(acc, Head(depts)), Tail(depts))

\* the pages memo
pages(data, selected) ==
    LET acc == PagesLoop([result |-> <<>>, currentPageDepts |-> <<>>, currentCol |-> 0],
                         filteredDepartmentData(data, selected))
    IN  IF Len(acc.currentPageDepts) > 0
        THEN Append(acc.result, acc.currentPageDepts)
        ELSE acc.result

Max(a, b) == IF a >= b THEN a ELSE b

\* Math.max(1, pages.length)
TotalPages(data, selected) == Max(1, Len(pages(data, selected)))

\* (mutant) no clamping effect
ClampPage_Off(page, total) == page

\* the clamping effect
ClampPage(page, total) == IF page > total THEN total ELSE page

AllNames(data) == {data[i].name : i \in DOMAIN data}

\* the effect on departmentData: the selection restored from the cookie (no
\* cookie: all; JSON.parse or filter throws: all; no valid name: unchanged)
RestoredSelection(data, selected, c) ==
    IF data = <<>> THEN selected
    ELSE IF c.kind \in {"none", "garbage"} THEN AllNames(data)
    ELSE IF c.names \cap AllNames(data) # {} THEN c.names \cap AllNames(data)
    ELSE selected

\* the selectedDepartments cookie: absent, not a JSON array, or an array
Cookies ==
    {NoCookie, [kind |-> "garbage", names |-> {}]}
      \cup {[kind |-> "json", names |-> n] : n \in SUBSET DepartmentNames}

\* handleSSEMessage, and the effects of the render that follows it: the
\* clamping effect runs for the render with the new data, and again for the
\* render with the restored selection
SSEMessage ==
    /\ \E f \in Feeds :
         LET data == IF f = <<>> THEN departmentData ELSE FeedData(f)
             selected == RestoredSelection(data, selectedDepartments, cookie)
             first == ClampPage(currentPage,
                                TotalPages(data, selectedDepartments))
         IN  /\ departmentData' = data
             /\ tableView' = IF f = <<>> \/ tableView = "error"
                             THEN "error" ELSE "table"
             /\ selectedDepartments' = IF f = <<>> THEN selectedDepartments
                                       ELSE selected
             /\ currentPage' = IF f = <<>> THEN currentPage
                               ELSE ClampPage(first, TotalPages(data, selected))
             /\ clamped' = (f # <<>> /\ currentPage' # currentPage)
    /\ tableEvent' = "data"
    /\ UNCHANGED cookie
    /\ UNCHANGED <<cycleVars, regionVars>>

\* handleSSEError
SSEError ==
    /\ tableView' = "error"
    /\ tableEvent' = "sseerror"
    /\ clamped' = FALSE
    /\ UNCHANGED <<currentPage, departmentData, selectedDepartments, cookie>>
    /\ UNCHANGED <<cycleVars, regionVars>>

\* the previous-page button
PreviousPage ==
    /\ tableView = "table"
    /\ currentPage # 1
    /\ LET total == TotalPages(departmentData, selectedDepartments)
           page == Max(1, currentPage - 1)
       IN  /\ currentPage' = ClampPage(page, total)
           /\ clamped' = (currentPage' # page)
    /\ tableEvent' = "previous"
    /\ UNCHANGED <<departmentData, selectedDepartments, tableView, cookie>>
    /\ UNCHANGED <<cycleVars, regionVars>>

\* the next-page button
NextPage ==
    LET total == TotalPages(departmentData, selectedDepartments)
    IN  /\ tableView = "table"
        /\ currentPage # total
        /\ currentPage' = ClampPage(Min(total, currentPage + 1), total)
        /\ clamped' = (currentPage' # Min(total, currentPage + 1))
        /\ tableEvent' = "next"
        /\ UNCHANGED <<departmentData, selectedDepartments, tableView, cookie>>
        /\ UNCHANGED <<cycleVars, regionVars>>

isAllSelected ==
    departmentData # <<>> /\ Cardinality(selectedDepartments) = Len(departmentData)

\* currentPage after setCurrentPage(1) and the render of selection selected
FirstPage(selected) == ClampPage(1, TotalPages(departmentData, selected))

\* the "All" checkbox of the modal
handleSelectAll ==
    /\ tableView = "table"
    /\ selectedDepartments' = IF isAllSelected THEN {}
                              ELSE AllNames(departmentData)
    /\ cookie' = [kind |-> "json", names |-> selectedDepartments']
    /\ currentPage' = FirstPage(selectedDepartments')
    /\ clamped' = (currentPage' # 1)
    /\ tableEvent' = "selectAll"
    /\ UNCHANGED <<departmentData, tableView>>
    /\ UNCHANGED <<cycleVars, regionVars>>

\* the reset button of the modal
handleReset ==
    /\ tableView = "table"
    /\ selectedDepartments' = AllNames(departmentData)
    /\ cookie' = [kind |-> "json", names |-> selectedDepartments']
    /\ currentPage' = FirstPage(selectedDepartments')
    /\ clamped' = (currentPage' # 1)
    /\ tableEvent' = "reset"
    /\ UNCHANGED <<departmentData, tableView>>
    /\ UNCHANGED <<cycleVars, regionVars>>

\* the checkbox of a department of the modal
handleDepartmentToggle ==
    /\ tableView = "table"
    /\ \E deptName \in AllNames(departmentData) :
         selectedDepartments' = IF deptName \in selectedDepartments
                                THEN selectedDepartments \ {deptName}
                                ELSE selectedDepartments \cup {deptName}
    /\ cookie' = [kind |-> "json", names |-> selectedDepartments']
    /\ currentPage' = FirstPage(selectedDepartments')
    /\ clamped' = (currentPage' # 1)
    /\ tableEvent' = "toggle"
    /\ UNCHANGED <<departmentData, tableView>>
    /\ UNCHANGED <<cycleVars, regionVars>>

\* a table mounted in a browser with any cookie
InitTable ==
    /\ variant = "QrCodeScanner"
    /\ userAgent = {"Android"}
    /\ innerWidth = 767
    /\ Mounted
    /\ TableIdle
    /\ cookie \in Cookies

NextTable ==
    \/ SSEMessage
    \/ SSEError
    \/ PreviousPage
    \/ NextPage
    \/ handleSelectAll
    \/ handleReset
    \/ handleDepartmentToggle

SpecTable == InitTable /\ [][NextTable]_vars

----------------------------------------------------------------------------
\* The scan area of a mounted scanner, for every implementation, user agent,
\* viewport width and frame size.

\* the window is resized (or the device rotated)
Resize ==
    /\ \E w \in Widths \ {innerWidth} : innerWidth' = w
    /\ resized' = TRUE
    /\ UNCHANGED <<variant, userAgent, scanAreaSize, crop>>
    /\ UNCHANGED cycleVars
    /\ UNCHANGED tableVars

\* image.onload computes the decode crop of a frame
CropFrame ==
    /\ \E frame \in Frames :
         crop' = DecodeCrop(variant, userAgent, innerWidth, frame)
    /\ UNCHANGED <<variant, userAgent, innerWidth, scanAreaSize, resized>>
    /\ UNCHANGED cycleVars
    /\ UNCHANGED tableVars

InitRegion ==
    /\ variant \in Variants
    /\ userAgent \in UserAgents
    /\ innerWidth \in Widths
    /\ Mounted
    /\ TableIdle
    /\ cookie = NoCookie

NextRegion ==
    \/ Resize
    \/ CropFrame

SpecRegion == InitRegion /\ [][NextRegion]_vars

----------------------------------------------------------------------------
\* Properties of the capture cycle (Spec, SpecLive).

\* the cycle states of a mounted scanner
Scanning == mountedRef /\ scanState.isScanning
Processing == mountedRef /\ scanState.isProcessing
Displaying == mountedRef /\ ~scanState.isScanning /\ ~scanState.isProcessing

\* C1: at most one createByQRCode call is outstanding at any instant.
C1_AtMostOneInFlight == Len(inflight) <= 1

\* C2: from the acceptance of a payload until the reset timeout that follows
\* the display of its result has fired, no further createByQRCode call is
\* started: a call is started only with no call outstanding and with the
\* cycle back in Scanning.
C2_AtMostOncePerScan ==
    [][lastEvent' = "accept" => (inflight = <<>> /\ scanState.isScanning)]_vars

\* C3: jsQR is never invoked while the cycle is in Processing (isProcessing
\* true or a call outstanding) or Displaying (isScanning false).
C3_NoDecodeWhileSuspended ==
    [][lastEvent' \in {"miss", "drop", "accept"}
         => (scanState.isScanning /\ ~scanState.isProcessing /\ inflight = <<>>)]_vars

\* C4: in a session that stays mounted, every Displaying state is followed by
\* Scanning with the sampling interval armed.
C4_DisplayingLeadsToScanning ==
    Displaying ~> (~mountedRef \/ (scanState.isScanning /\ timers.intervals = 1))

\* C4 witness: the reset timeout has fired on the display of a network error
\* and the scanner samples again.
C4_Witness ==
    /\ mountedRef
    /\ lastEvent = "reset"
    /\ inflight = <<>>
    /\ snackbar.message = NetworkErrorMessage
    /\ scanState.isScanning
    /\ timers.intervals = 1

\* C5: a submission that settles after unmount changes neither scanState nor
\* snackbar.
C5_SettleAfterUnmountChangesNothing ==
    [][(~mountedRef /\ lastEvent' = "settle")
         => (scanState' = scanState /\ snackbar' = snackbar)]_vars

\* C5 witness: the scanner was unmounted while it rendered Processing, and the
\* call has settled since.
C5_Witness ==
    /\ ~mountedRef
    /\ lastEvent = "settle"
    /\ captureDeps.isProcessing
    /\ ~captureDeps.isScanning
    /\ scanState.isProcessing

----------------------------------------------------------------------------
\* Properties of the scan area (SpecRegion).

\* C7: in QrCodeScanner the overlay's multiplier equals the multiplier of
\* the decode crop in every state, also after the viewport width changed.
C7_OverlayMatchesCrop ==
    (variant = "QrCodeScanner" /\ crop.taken) => scanAreaSize = crop.multiplier * 10

\* C8: in both implementations and for every device class the overlay
\* percentage is the decode-crop multiplier times 100 (viewport as at mount).
C8_OverlayIsCropTimes100 ==
    (crop.taken /\ ~resized) => scanAreaSize = crop.multiplier * 10

\* the multipliers of C9, in tenths
C9_Multiplier(c) ==
    CASE c = "desktop" -> 4 [] c = "tablet" -> 5 [] c = "phone" -> 6

\* C9: the decode region is the centred square of side min(w,h)*m(c), with
\* m(desktop) = 0.4, m(tablet) = 0.5, m(phone) = 0.6; a phone's 1000x2000
\* frame gives side 600 at (200, 700). Lengths are in twentieths of a pixel.
C9_DecodeRegion ==
    crop.taken =>
      LET c == DeviceClass(userAgent, crop.viewport)
          least == IF crop.width <= crop.height THEN crop.width ELSE crop.height
      IN  /\ 10 * crop.side = 20 * least * C9_Multiplier(c)
          /\ 2 * crop.startX + crop.side = 20 * crop.width
          /\ 2 * crop.startY + crop.side = 20 * crop.height
          /\ (c = "phone" /\ crop.width = 1000 /\ crop.height = 2000)
               => (/\ crop.side = 20 * 600
                   /\ crop.startX = 20 * 200
                   /\ crop.startY = 20 * 700)

\* C9 witness: the crop of a phone's 1000x2000 frame.
C9_Witness ==
    /\ crop.taken
    /\ DeviceClass(userAgent, crop.viewport) = "phone"
    /\ crop.width = 1000
    /\ crop.height = 2000
    /\ crop.side = 12000

\* the device class a crop's multiplier stands for
C10_ClassOf(m) == IF m = 6 THEN "phone" ELSE IF m = 5 THEN "tablet" ELSE "desktop"

C10_MobileSignature ==
    \E sig \in {"Android", "webOS", "iPhone", "iPad", "iPod", "BlackBerry",
                "IEMobile", "Opera Mini"} : sig \in userAgent

C10_TabletSignature == "iPad" \in userAgent \/ "Tablet" \in userAgent

C10_TabletWidth == crop.viewport \in 768..1366

\* C10 as stated: phone if the mobile signature matches; else tablet if the
\* tablet signature matches or the width is in 768..1366; else desktop.
C10_PhoneFirst ==
    crop.taken =>
      C10_ClassOf(crop.multiplier) =
        IF C10_MobileSignature THEN "phone"
        ELSE IF C10_TabletSignature \/ C10_TabletWidth THEN "tablet"
        ELSE "desktop"

\* C10 amended: tablet if the tablet signature matches or the width is in
\* 768..1366, whatever the mobile signature; else phone if the mobile
\* signature matches; else desktop.
C10_TabletFirst ==
    crop.taken =>
      /\ (C10_TabletSignature \/ C10_TabletWidth)
           => C10_ClassOf(crop.multiplier) = "tablet"
      /\ (~C10_TabletSignature /\ ~C10_TabletWidth /\ C10_MobileSignature)
           => C10_ClassOf(crop.multiplier) = "phone"
      /\ (~C10_TabletSignature /\ ~C10_TabletWidth /\ ~C10_MobileSignature)
           => C10_ClassOf(crop.multiplier) = "desktop"

\* C10 witness: an iPhone whose viewport is 768 px wide is cropped as a tablet.
C10_Witness ==
    /\ crop.taken
    /\ userAgent = {"iPhone"}
    /\ crop.viewport = 768
    /\ crop.multiplier = 5

----------------------------------------------------------------------------
\* Properties of the outcome, the timers and the camera (Spec, SpecLive).

\* the last step handled a settlement in a mounted scanner
SettledMounted == settled.any /\ mountedRef

\* the response of the last settlement is a well-formed object
C11_WellFormed ==
    /\ ~settled.reply.threw
    /\ settled.reply.response.isObject
    /\ settled.reply.response.hasStatus

\* C11: a response with status true and a come_time is stored as check-in,
\* one with status true and no come_time (or no data) as check-out, one with
\* status false as error, whatever the cycle held before. A come_time is a
\* non-empty string.
C11_OutcomeClassification ==
    (SettledMounted /\ C11_WellFormed) =>
      LET r == settled.reply.response
          come == r.data.present /\ r.data.come_time \notin {Null, ""}
      IN  /\ (r.status /\ come) => scanState.messageType = "check-in"
          /\ (r.status /\ ~come) => scanState.messageType = "check-out"
          /\ ~r.status => scanState.messageType = "error"

\* C11 witness: a response with data and no come_time was stored as check-out.
C11_Witness ==
    /\ SettledMounted
    /\ C11_WellFormed
    /\ settled.reply.response.status
    /\ settled.reply.response.data.present
    /\ settled.reply.response.data.come_time = Null
    /\ scanState.messageType = "check-out"

\* what C12 says of the state right after a rejected call
C12_NetworkErrorStored ==
    (SettledMounted /\ settled.reply.threw) =>
      /\ scanState.messageType = "error"
      /\ scanState.serverMessage = NetworkErrorMessage
      /\ snackbar = [open |-> TRUE, message |-> NetworkErrorMessage]
      /\ scanState.result = Null
      /\ scanState.employeeName = ""
      /\ ~isProcessingRef
      /\ ~scanState.isProcessing

\* C12: a rejected createByQRCode call is stored as an error outcome with the
\* network message and no employee, the in-flight flag is cleared, and
\* scanning resumes afterwards.
C12_RejectionBecomesNetworkError ==
    /\ []C12_NetworkErrorStored
    /\ (SettledMounted /\ settled.reply.threw)
         ~> (~mountedRef \/ (scanState.isScanning /\ timers.intervals = 1))

\* C12 witness: a call was rejected after an employee's check-in had been
\* displayed, and the employee is gone from the stored outcome.
C12_Witness ==
    /\ SettledMounted
    /\ settled.reply.threw
    /\ hits >= 2
    /\ ~scanState.isScanning
    /\ scanState.messageType = "error"

\* C13: while a failed submission is displayed (scanning has not resumed) no
\* createByQRCode call is started.
C13_NoCallWhileFailureDisplayed ==
    [][(mountedRef /\ ~scanState.isScanning /\ scanState.messageType = "error")
         => lastEvent' # "accept"]_vars

\* C14: at most one sampling interval is armed.
C14_AtMostOneInterval == timers.intervals <= 1

\* C14 witness: the timer effect has re-run with isScanning true on both
\* sides (isProcessing went from true to false) and one interval is armed.
C14_Witness ==
    /\ mountedRef
    /\ lastEvent = "settle"
    /\ hits = 1
    /\ scanState.isScanning
    /\ timers.intervals = 1

\* C15: a toggle flips facingMode and changes neither the cycle state, the
\* in-flight flag, the outstanding calls nor the timers.
C15_ToggleChangesOnlyFacingMode ==
    [][lastEvent' = "toggle"
         => /\ facingMode' # facingMode
            /\ facingMode' \in {"environment", "user"}
            /\ UNCHANGED <<scanState, isProcessingRef, inflight, timers,
                           pendingImages, snackbar, mountedRef>>]_vars

\* C15 witness: the camera was toggled back while a call was outstanding.
C15_Witness ==
    /\ lastEvent = "toggle"
    /\ inflight # <<>>
    /\ facingMode = "environment"

\* C16: after a failed camera acquisition the session is not an ordinary
\* Scanning session: an error is stored or shown, or sampling has stopped.
C16_CameraFailureSurfaced ==
    (mountedRef /\ camera = "failed")
      => \/ scanState.messageType = "error"
         \/ snackbar.open
         \/ ~scanState.isScanning
         \/ timers.intervals = 0

\* C17: no createByQRCode call is made with the empty payload.
C17_NoEmptyPayload == \A i \in 1..Len(inflight) : inflight[i] # ""

\* C18: a frame that cannot be captured, loaded, cropped or decoded changes
\* neither the cycle state, the in-flight flag, the timers nor the calls.
C18_BadFrameIsNoPayload ==
    [][lastEvent' \in {"tick", "miss", "error", "onerror"}
         => UNCHANGED <<scanState, isProcessingRef, timers, inflight, snackbar,
                        mountedRef>>]_vars

\* C18 witness: jsQR found nothing in a frame and the scanner still samples.
C18_Witness ==
    /\ lastEvent = "miss"
    /\ mountedRef
    /\ scanState.isScanning
    /\ timers.intervals = 1
    /\ inflight = <<>>

\* C19: the reset timeout never fires while a call is outstanding.
C19_NoResetWhileOutstanding ==
    [][lastEvent' = "reset" => inflight = <<>>]_vars

\* C20: while isScanning is true no outcome is stored.
C20_NoOutcomeWhileScanning ==
    (mountedRef /\ scanState.isScanning)
      => /\ scanState.result = Null
         /\ scanState.messageType = Null
         /\ scanState.serverMessage = ""
         /\ scanState.employeeName = ""

----------------------------------------------------------------------------
\* Properties of teardown, malformed responses and the two timers
\* (Spec, SpecLive).

\* C21: once the scanner is unmounted no image.onload runs jsQR and no
\* createByQRCode call is started.
C21_NoDecodeAfterTeardown ==
    [][~mountedRef => lastEvent' \notin {"miss", "drop", "accept"}]_vars

\* C22: once the scanner is unmounted isProcessingRef keeps its value.
C22_FlagFrozenAfterTeardown ==
    [][~mountedRef => isProcessingRef' = isProcessingRef]_vars

\* the response of the last settlement is null or has no status field
C23_Malformed ==
    /\ ~settled.reply.threw
    /\ ~(settled.reply.response.isObject /\ settled.reply.response.hasStatus)

\* C23: a response that is null or has no status field is stored as a thrown
\* call is: error, with the network message.
C23_MalformedIsNetworkError ==
    (SettledMounted /\ C23_Malformed) =>
      /\ scanState.messageType = "error"
      /\ scanState.serverMessage = NetworkErrorMessage
      /\ snackbar.message = NetworkErrorMessage

\* C25: a live interval and a live reset timeout never coexist; an interval
\* is live only while isScanning is true, a timeout only while it is false.
C25_TimersExclusive ==
    /\ ~(timers.intervals > 0 /\ timers.timeouts > 0)
    /\ timers.intervals > 0 => scanState.isScanning
    /\ timers.timeouts > 0 => ~scanState.isScanning

\* C25 witness: the effect re-ran with isScanning false on both sides (the
\* call settled) and the timeout alone is armed.
C25_Witness ==
    /\ mountedRef
    /\ lastEvent = "settle"
    /\ ~scanState.isScanning
    /\ timers.timeouts = 1
    /\ timers.intervals = 0

\* C26: in a mounted scanner isProcessingRef is true exactly when a
\* createByQRCode call is outstanding, and equals scanState.isProcessing.
C26_FlagIffOutstanding ==
    mountedRef =>
      /\ isProcessingRef <=> inflight # <<>>
      /\ isProcessingRef <=> scanState.isProcessing

\* C27: in a scanner that stays mounted every state with isScanning false is
\* followed by one with isScanning true, whether or not the call settles.
C27_NoStuck ==
    (mountedRef /\ ~scanState.isScanning)
      ~> (~mountedRef \/ scanState.isScanning)

\* C27 witness: the reset timeout returned the scanner to scanning while the
\* call was still outstanding.
C27_Witness ==
    /\ mountedRef
    /\ lastEvent = "reset"
    /\ inflight # <<>>
    /\ scanState.isScanning
    /\ timers.intervals = 1

\* C28: when ResultContent is rendered (isScanning and isProcessing false,
\* mounted) an outcome is stored, and an error outcome has no result and no
\* employee name.
C28_ResultContentHasOutcome ==
    /\ (mountedRef /\ ~scanState.isScanning /\ ~scanState.isProcessing)
         => scanState.messageType \in {"check-in", "check-out", "error"}
    /\ scanState.messageType = "error"
         => (scanState.result = Null /\ scanState.employeeName = "")

\* C28 witness: an error is displayed after an employee's result was.
C28_Witness ==
    /\ mountedRef
    /\ lastEvent = "settle"
    /\ hits >= 2
    /\ ~scanState.isScanning
    /\ ~scanState.isProcessing
    /\ scanState.messageType = "error"
    /\ scanState.result = Null

----------------------------------------------------------------------------
\* Properties of the reset callback (SpecReset).

\* C24: a reset of a mounted scanner gives isScanning true, no outcome and
\* isProcessingRef false; a second reset right after it changes nothing; a
\* reset of an unmounted scanner changes nothing.
C24_ResetIdempotent ==
    [][lastEvent' = "reset"
         => IF mountedRef
            THEN /\ scanState'.isScanning
                 /\ scanState'.result = Null
                 /\ scanState'.messageType = Null
                 /\ scanState'.serverMessage = ""
                 /\ scanState'.employeeName = ""
                 /\ ~isProcessingRef'
                 /\ lastEvent = "reset"
                      => UNCHANGED <<scanState, isProcessingRef, timers>>
            ELSE UNCHANGED <<scanState, isProcessingRef, timers, snackbar>>]_vars

\* C24 witness: the reset was applied to a scanner whose isProcessing was
\* true.
C24_Witness ==
    /\ mountedRef
    /\ lastEvent = "reset"
    /\ scanState.isScanning
    /\ scanState.isProcessing
    /\ scanState.messageType = Null
    /\ timers.intervals = 1

----------------------------------------------------------------------------
\* Properties of the dashboard table (SpecTable).

\* the (page, column) places among the rendered columns that hold chunk ch
C29_Places(ps, ch) ==
    {pc \in (DOMAIN ps) \X (1..maxColumnsPerPage) :
       pc[2] <= Len(ps[pc[1]]) /\ ps[pc[1]][pc[2]] = ch}

\* C29: every page holds at most maxColumnsPerPage chunks of at most
\* maxEmployeesPerColumn employees, and every chunk of a selected department
\* is in exactly one rendered column of one page.
C29_EveryEmployeeRendered ==
    LET ps == pages(departmentData, selectedDepartments)
    IN  /\ \A p \in DOMAIN ps :
             /\ Len(ps[p]) <= maxColumnsPerPage
             /\ \A c \in DOMAIN ps[p] : ps[p][c].size <= maxEmployeesPerColumn
        /\ \A i \in DOMAIN departmentData :
             departmentData[i].name \in selectedDepartments
               => \A k \in 1..ColumnsNeeded(departmentData[i].size) :
                    Cardinality(C29_Places(ps,
                        Chunks(departmentData[i].name, departmentData[i].size)[k])) = 1

\* C30: after every step, its effects included, currentPage is in
\* 1..max(1, pages.length).
C30_PageInRange ==
    /\ currentPage >= 1
    /\ currentPage <= TotalPages(departmentData, selectedDepartments)

\* C30 witness: new data left fewer pages than the page shown and the
\* clamping effect moved currentPage to the last of them.
C30_Witness ==
    /\ tableEvent = "data"
    /\ clamped
    /\ tableView = "table"
    /\ currentPage = TotalPages(departmentData, selectedDepartments)

====
